---- MODULE Spec2Model ----
(***************************************************************************)
(* Model of bot.py: the contact manager's field validators, Record and     *)
(* AddressBook operations, the upcoming-birthday computation and the       *)
(* command loop.                                                           *)
(*                                                                         *)
(* Strings are sequences of Unicode code points, so that len(), split(),   *)
(* strip(), lower(), str.isdigit(), strptime() and strftime() are computed *)
(* character by character as Python computes them.                         *)
(***************************************************************************)
EXTENDS Integers, Sequences, FiniteSets, TLC

VARIABLES
    book,    \* AddressBook.data: insertion-ordered sequence of Records
    saved,   \* the pickled snapshot in book.pkl
    pc,      \* position of main(): "running", "crashed" (uncaught exception), "exited"
    out,     \* the lines printed by the last operation
    ret,     \* the return value (or raised exception) of the last direct call
    today,   \* datetime.today().date() as [y, m, d]
    arg      \* the argument of the constructor call under test

vars == <<book, saved, pc, out, ret, today, arg>>

(***************************************************************************)
(* Bounds of the model.                                                    *)
(***************************************************************************)
MaxPhones == 2     \* longest phone list a record is grown to
MaxRecords == 2    \* largest store the birthday query is applied to

(***************************************************************************)
(* Characters and strings.                                                 *)
(***************************************************************************)
\* No birthday: Record.birthday = None (no accepted birthday string is empty).
None == <<>>

\* Unicode category Nd among the characters used: ASCII 0-9, Arabic-Indic 0-9.
IsDecimalChar(c) == c \in 48..57 \/ c \in 1632..1641

\* str.isdigit(): Nd, plus the Numeric_Type=Digit characters (superscripts 2, 3, 1).
isdigit(c) == IsDecimalChar(c) \/ c \in {178, 179, 185}

\* int() of one decimal character.
DigitVal(c) == IF c \in 48..57 THEN c - 48 ELSE c - 1632

\* str.isspace() among the characters used.
isspace(c) == c \in {9, 10, 11, 12, 13, 28, 29, 30, 31, 32, 133, 160}

\* str.lower() on ASCII letters.
lower(s) == [i \in 1..Len(s) |-> IF s[i] \in 65..90 THEN s[i] + 32 ELSE s[i]]

RECURSIVE lstrip(_)
lstrip(s) == IF s # <<>> /\ isspace(Head(s)) THEN lstrip(Tail(s)) ELSE s

RECURSIVE rstrip(_)
rstrip(s) ==
    IF s # <<>> /\ isspace(s[Len(s)]) THEN rstrip(SubSeq(s, 1, Len(s) - 1)) ELSE s

strip(s) == rstrip(lstrip(s))

\* str.split() without arguments: the maximal runs of non-whitespace characters.
RECURSIVE SplitFrom(_, _, _)
SplitFrom(s, cur, acc) ==
    IF s = <<>>
    THEN IF cur = <<>> THEN acc ELSE Append(acc, cur)
    ELSE IF isspace(Head(s))
         THEN SplitFrom(Tail(s), <<>>, IF cur = <<>> THEN acc ELSE Append(acc, cur))
         ELSE SplitFrom(Tail(s), Append(cur, Head(s)), acc)

split(s) == SplitFrom(s, <<>>, <<>>)

(***************************************************************************)
(* Field validators.  A constructor yields the exception it raises, or ""  *)
(* when it returns.                                                        *)
(***************************************************************************)
NoExc == ""

Name(value) ==
    IF Len(strip(value)) = 0 THEN "RequiredFieldError" ELSE NoExc

Phone(value) ==
    IF Len(value) # 10 \/ ~(\A i \in 1..Len(value) : isdigit(value[i]))
    THEN "FieldFormatError"
    ELSE NoExc

validate_phone(value) ==
    IF Len(value) # 10 \/ ~(\A i \in 1..Len(value) : isdigit(value[i]))
    THEN "ValueError"
    ELSE NoExc

(***************************************************************************)
(* Dates: datetime.date as [y, m, d], with the proleptic Gregorian         *)
(* arithmetic of the datetime module.                                      *)
(***************************************************************************)
IsLeap(y) == y % 4 = 0 /\ (y % 100 # 0 \/ y % 400 = 0)

DaysInMonth(y, m) ==
    IF m = 2 THEN (IF IsLeap(y) THEN 29 ELSE 28)
    ELSE IF m \in {4, 6, 9, 11} THEN 30 ELSE 31

RECURSIVE DaysBeforeMonth(_, _)
DaysBeforeMonth(y, m) ==
    IF m = 1 THEN 0 ELSE DaysBeforeMonth(y, m - 1) + DaysInMonth(y, m - 1)

DaysBeforeYear(y) ==
    (y - 1) * 365 + ((y - 1) \div 4) - ((y - 1) \div 100) + ((y - 1) \div 400)

\* date.toordinal(): 01.01.0001 is day 1.
toordinal(dt) == DaysBeforeYear(dt.y) + DaysBeforeMonth(dt.y, dt.m) + dt.d

\* date.weekday(): Monday is 0, Sunday is 6.
weekday(dt) == (toordinal(dt) + 6) % 7

\* The date constructor raises ValueError outside the calendar.
ValidDate(y, m, d) ==
    /\ y \in 1..9999
    /\ m \in 1..12
    /\ d \in 1..DaysInMonth(y, m)

NextDay(dt) ==
    IF dt.d < DaysInMonth(dt.y, dt.m) THEN [dt EXCEPT !.d = dt.d + 1]
    ELSE IF dt.m < 12 THEN [y |-> dt.y, m |-> dt.m + 1, d |-> 1]
    ELSE [y |-> dt.y + 1, m |-> 1, d |-> 1]

\* date + timedelta(n), n >= 0.
RECURSIVE AddDays(_, _)
AddDays(dt, n) == IF n = 0 THEN dt ELSE AddDays(NextDay(dt), n - 1)

\* Position of the first "." of s at or after position i, or 0.
RECURSIVE FindDot(_, _)
FindDot(s, i) ==
    IF i > Len(s) THEN 0 ELSE IF s[i] = 46 THEN i ELSE FindDot(s, i + 1)

\* %d: 3[0-1] | [1-2]\d | 0[1-9] | [1-9] | " "[1-9]
MatchesDay(f) ==
    \/ /\ Len(f) = 2
       /\ \/ f[1] = 51 /\ f[2] \in {48, 49}
          \/ f[1] \in {49, 50} /\ IsDecimalChar(f[2])
          \/ f[1] = 48 /\ f[2] \in 49..57
          \/ f[1] = 32 /\ f[2] \in 49..57
    \/ Len(f) = 1 /\ f[1] \in 49..57

\* %m: 1[0-2] | 0[1-9] | [1-9]
MatchesMonth(f) ==
    \/ /\ Len(f) = 2
       /\ \/ f[1] = 49 /\ f[2] \in {48, 49, 50}
          \/ f[1] = 48 /\ f[2] \in 49..57
    \/ Len(f) = 1 /\ f[1] \in 49..57

\* int() of a matched field.
RECURSIVE FieldVal(_)
FieldVal(f) ==
    IF f = <<>> THEN 0
    ELSE IF f[Len(f)] = 32 THEN 0
    ELSE FieldVal(SubSeq(f, 1, Len(f) - 1)) * 10 + DigitVal(f[Len(f)])

\* datetime.strptime(value, "%d.%m.%Y").date(): [ok |-> FALSE] stands for ValueError
\* (no match, unconverted data remaining, or a day outside the month).
strptime(value) ==
    LET i1 == FindDot(value, 1)
        i2 == IF i1 = 0 THEN 0 ELSE FindDot(value, i1 + 1)
        fd == SubSeq(value, 1, i1 - 1)
        fm == SubSeq(value, i1 + 1, i2 - 1)
        fy == SubSeq(value, i2 + 1, Len(value))
    IN  IF /\ i1 > 0
           /\ i2 > 0
           /\ MatchesDay(fd)
           /\ MatchesMonth(fm)
           /\ Len(fy) = 4
           /\ \A i \in 1..4 : IsDecimalChar(fy[i])
           /\ ValidDate(FieldVal(fy), FieldVal(fm), FieldVal(fd))
        THEN [ok |-> TRUE, y |-> FieldVal(fy), m |-> FieldVal(fm), d |-> FieldVal(fd)]
        ELSE [ok |-> FALSE, y |-> 0, m |-> 0, d |-> 0]

\* Decimal digits of n >= 0, at least w of them.
RECURSIVE Digits(_, _)
Digits(n, w) ==
    IF n < 10 /\ w <= 1 THEN <<48 + n>>
    ELSE Append(Digits(n \div 10, w - 1), 48 + (n % 10))

\* datetime.strftime(dt, "%d.%m.%Y"); the C library pads %d and %m, not %Y.
strftime(dt) == Digits(dt.d, 2) \o <<46>> \o Digits(dt.m, 2) \o <<46>> \o Digits(dt.y, 1)

Birthday(value) ==
    IF strptime(value).ok THEN NoExc ELSE "FieldFormatError"

validate_date(value) ==
    IF strptime(value).ok THEN NoExc ELSE "ValueError"

(***************************************************************************)
(* error_handler: what the decorator of the Record and AddressBook methods *)
(* prints for the exception the method raised.                             *)
(***************************************************************************)
error_handler(exc) ==
    IF exc = NoExc THEN <<>>
    ELSE IF exc \in {"RequiredFieldError", "FieldFormatError"}
         THEN <<"[ERROR] Validation failed">>
    ELSE IF exc = "ValueError" THEN <<"Phone number not found.">>
    ELSE IF exc = "KeyError" THEN <<"Contact not found.">>
    ELSE <<"[ERROR] Unknown exception">>

(***************************************************************************)
(* Record: [name, phones, birthday].  A method yields the record after the *)
(* call and the lines it printed.                                          *)
(***************************************************************************)
Record(name) == [name |-> name, phones |-> <<>>, birthday |-> None]

\* `phone not in self.phones`: Field defines no __eq__, so list membership compares
\* identities, and `phone` is the object constructed on the line before: it is no
\* element of the list, whatever the values held.
phone_in(phone, phones) == FALSE

add_phone(rec, phone_number) ==
    LET exc == Phone(phone_number)
    IN  IF exc # NoExc THEN [rec |-> rec, out |-> error_handler(exc)]
        ELSE IF ~phone_in(phone_number, rec.phones)
             THEN [rec |-> [rec EXCEPT !.phones = Append(@, phone_number)],
                   out |-> <<>>]
             ELSE [rec |-> rec, out |-> <<>>]

\* A plausible slip: no match yields the first position instead of raising.
get_phone_index_NoRaise(phones, phone_number) ==
    IF \E i \in 1..Len(phones) : phones[i] = phone_number
    THEN CHOOSE i \in 1..Len(phones) :
             /\ phones[i] = phone_number
             /\ \A j \in 1..(i - 1) : phones[j] # phone_number
    ELSE 1

\* __get_phone_index: the first position holding the number (from 1), or 0 for the
\* ValueError raised when no position holds it.
get_phone_index(phones, phone_number) ==
    IF \E i \in 1..Len(phones) : phones[i] = phone_number
    THEN CHOOSE i \in 1..Len(phones) :
             /\ phones[i] = phone_number
             /\ \A j \in 1..(i - 1) : phones[j] # phone_number
    ELSE 0

\* self.phones.pop() removes the last element, whatever the index found.
remove_phone(rec, phone_number) ==
    LET index == get_phone_index(rec.phones, phone_number)
    IN  IF index = 0 THEN [rec |-> rec, out |-> error_handler("ValueError")]
        ELSE [rec |-> [rec EXCEPT !.phones = SubSeq(@, 1, Len(@) - 1)],
              out |-> <<>>]

edit_phone(rec, old_phone_number, new_phone_number) ==
    LET index == get_phone_index(rec.phones, old_phone_number)
        exc == Phone(new_phone_number)
    IN  IF index = 0 THEN [rec |-> rec, out |-> error_handler("ValueError")]
        ELSE IF exc # NoExc THEN [rec |-> rec, out |-> error_handler(exc)]
        ELSE [rec |-> [rec EXCEPT !.phones[index] = new_phone_number],
              out |-> <<>>]

add_birthday(rec, day) ==
    LET exc == Birthday(day)
    IN  IF exc # NoExc THEN [rec |-> rec, out |-> error_handler(exc)]
        ELSE [rec |-> [rec EXCEPT !.birthday = day], out |-> <<>>]

(***************************************************************************)
(* AddressBook: the records in insertion order, one per name.              *)
(***************************************************************************)
\* Position of the record called name, or 0.
IndexOf(data, name) ==
    IF \E i \in 1..Len(data) : data[i].name = name
    THEN CHOOSE i \in 1..Len(data) : data[i].name = name
    ELSE 0

names(data) == {data[i].name : i \in 1..Len(data)}

\* self.data[record.name.value] = record: a new key goes last, an old one keeps its place.
add_record(data, record) ==
    LET i == IndexOf(data, record.name)
    IN  IF i = 0 THEN Append(data, record) ELSE [data EXCEPT ![i] = record]

\* A plausible slip: the shift counted from weekday 6, so that Saturday moves to
\* Sunday and Sunday stays.
extra_days_FromSix(birthday) ==
    IF weekday(birthday) < 5 THEN 0 ELSE 6 - weekday(birthday)

\* extra_days: the days from the occurrence to the day of the greeting.
extra_days(birthday) ==
    IF weekday(birthday) < 5 THEN 0 ELSE 7 - weekday(birthday)

\* One record's part in get_upcoming_birthdays: "skip", "raise" (datetime() refuses
\* the day in the current year) or the greeting entry.
greeting(rec, current_date) ==
    IF rec.birthday = None THEN [kind |-> "skip"]
    ELSE LET user_born_date == strptime(rec.birthday)
             birthday == [y |-> current_date.y, m |-> user_born_date.m,
                          d |-> user_born_date.d]
         IN  IF ~user_born_date.ok \/ ~ValidDate(birthday.y, birthday.m, birthday.d)
             THEN [kind |-> "raise"]
             ELSE LET delta_days == toordinal(birthday) - toordinal(current_date)
                      is_upcoming == delta_days >= 0 /\ delta_days <= 7
                      greetings_date == AddDays(birthday, extra_days(birthday))
                  IN  IF is_upcoming
                      THEN [kind |-> "entry",
                            name |-> rec.name,
                            congratulation_date |-> strftime(greetings_date)]
                      ELSE [kind |-> "skip"]

RECURSIVE greetings_from(_, _, _, _)
greetings_from(data, i, current_date, greetings_list) ==
    IF i > Len(data) THEN [exc |-> NoExc, list |-> greetings_list]
    ELSE LET g == greeting(data[i], current_date)
         IN  IF g.kind = "raise" THEN [exc |-> "ValueError", list |-> <<>>]
             ELSE greetings_from(data, i + 1, current_date,
                     IF g.kind = "entry"
                     THEN Append(greetings_list,
                                 [name |-> g.name,
                                  congratulation_date |-> g.congratulation_date])
                     ELSE greetings_list)

\* [exc, list]: the list returned, or the exception that ended the loop.
get_upcoming_birthdays(data, current_date) ==
    greetings_from(data, 1, current_date, <<>>)

(***************************************************************************)
(* The command handlers.  A handler yields [book, out, exc]: the store and *)
(* the printed lines after the call, and the exception input_error let     *)
(* through to main() ("" when there is none).                              *)
(***************************************************************************)
\* input_error: KeyError, ValueError and IndexError are printed; the rest propagates.
input_error(data, exc) ==
    IF exc = "KeyError"
    THEN [book |-> data, out |-> <<"[ERROR] Data inconsistency">>, exc |-> NoExc]
    ELSE IF exc = "ValueError"
    THEN [book |-> data, out |-> <<"[ERROR] Unsupported format">>, exc |-> NoExc]
    ELSE IF exc = "IndexError"
    THEN [book |-> data, out |-> <<"[ERROR] Arguments mismatch">>, exc |-> NoExc]
    ELSE [book |-> data, out |-> <<>>, exc |-> exc]

validate_arguments(args, expected) ==
    IF Len(args) # expected THEN "IndexError" ELSE NoExc

validate_contact(name, data) ==
    IF name \notin names(data) THEN "KeyError" ELSE NoExc

\* parse_input: the unpacking `cmd, *args = user_input.split()` raises ValueError
\* when the line holds no word.
parse_input(user_input) ==
    LET words == split(user_input)
    IN  IF words = <<>>
        THEN [exc |-> "ValueError", cmd |-> <<>>, args |-> <<>>]
        ELSE [exc |-> NoExc, cmd |-> lower(strip(Head(words))), args |-> Tail(words)]

add_contact(args, data) ==
    IF validate_arguments(args, 2) # NoExc
    THEN input_error(data, validate_arguments(args, 2))
    ELSE IF validate_phone(args[2]) # NoExc
    THEN input_error(data, validate_phone(args[2]))
    ELSE LET i == IndexOf(data, args[1])
         IN  IF i = 0 /\ Name(args[1]) # NoExc
             THEN input_error(data, Name(args[1]))
             ELSE LET record == IF i # 0 THEN data[i] ELSE Record(args[1])
                      r == add_phone(record, args[2])
                  IN  [book |-> add_record(data, r.rec),
                       out |-> r.out \o <<"Contact added.">>,
                       exc |-> NoExc]

change_contact(args, data) ==
    IF validate_arguments(args, 3) # NoExc
    THEN input_error(data, validate_arguments(args, 3))
    ELSE IF validate_contact(args[1], data) # NoExc
    THEN input_error(data, validate_contact(args[1], data))
    ELSE IF validate_phone(args[2]) # NoExc
    THEN input_error(data, validate_phone(args[2]))
    ELSE IF validate_phone(args[3]) # NoExc
    THEN input_error(data, validate_phone(args[3]))
    ELSE LET i == IndexOf(data, args[1])
             r == edit_phone(data[i], args[2], args[3])
         IN  [book |-> [data EXCEPT ![i] = r.rec],
              out |-> r.out \o <<"Contact updated.">>,
              exc |-> NoExc]

\* Record has no phones_list method: the call raises AttributeError.
show_phone(args, data) ==
    IF validate_arguments(args, 1) # NoExc
    THEN input_error(data, validate_arguments(args, 1))
    ELSE IF validate_contact(args[1], data) # NoExc
    THEN input_error(data, validate_contact(args[1], data))
    ELSE input_error(data, "AttributeError")

add_birthday_cmd(args, data) ==
    IF validate_arguments(args, 2) # NoExc
    THEN input_error(data, validate_arguments(args, 2))
    ELSE IF validate_contact(args[1], data) # NoExc
    THEN input_error(data, validate_contact(args[1], data))
    ELSE IF validate_date(args[2]) # NoExc
    THEN input_error(data, validate_date(args[2]))
    ELSE LET i == IndexOf(data, args[1])
             r == add_birthday(data[i], args[2])
         IN  [book |-> [data EXCEPT ![i] = r.rec],
              out |-> r.out \o <<"Contact updated.">>,
              exc |-> NoExc]

show_birthday(args, data) ==
    IF validate_arguments(args, 1) # NoExc
    THEN input_error(data, validate_arguments(args, 1))
    ELSE IF validate_contact(args[1], data) # NoExc
    THEN input_error(data, validate_contact(args[1], data))
    ELSE [book |-> data, out |-> <<"was born in">>, exc |-> NoExc]

show_all(data) ==
    IF Len(data) = 0
    THEN [book |-> data, out |-> <<"There are no contacts.">>, exc |-> NoExc]
    ELSE [book |-> data,
          out |-> <<"---", "NAME|PHONE", "---">> \o [i \in 1..Len(data) |-> "row"],
          exc |-> NoExc]

\* Not decorated: what get_upcoming_birthdays raises reaches main().
show_upcoming_bitrhdays(data, current_date) ==
    LET info == get_upcoming_birthdays(data, current_date)
    IN  [book |-> data,
         out |-> [i \in 1..Len(info.list) |-> "Name: , Birthday: "],
         exc |-> info.exc]

(***************************************************************************)
(* Input strings.                                                          *)
(***************************************************************************)
ANN == <<65, 110, 110>>   \* "Ann"
BOB == <<66, 111, 98>>   \* "Bob"
CYD == <<67, 121, 100>>   \* "Cyd"
DAN == <<68, 97, 110>>   \* "Dan"
P1 == <<49, 50, 51, 52, 53, 54, 55, 56, 57, 48>>   \* "1234567890"
P2 == <<48, 57, 56, 55, 54, 53, 52, 51, 50, 49>>   \* "0987654321"
P_SUPERSCRIPT == <<178, 178, 178, 178, 178, 178, 178, 178, 178, 178>>   \* ten superscript twos
P_ARABIC == <<1633, 1634, 1635, 1636, 1637, 1638, 1639, 1640, 1641, 1632>>   \* Arabic-Indic 1234567890
P_LETTERS == <<49, 50, 51, 52, 53, 97, 98, 99, 100, 101>>   \* "12345abcde"
P_SHORT == <<49, 50, 51, 52, 53, 54, 55, 56, 57>>   \* "123456789"
P_LONG == <<49, 50, 51, 52, 53, 54, 55, 56, 57, 48, 49>>   \* "12345678901"
CMD_ADD == <<97, 100, 100>>   \* "add"
CMD_CHANGE == <<99, 104, 97, 110, 103, 101>>   \* "change"
CMD_PHONE == <<112, 104, 111, 110, 101>>   \* "phone"
CMD_ALL == <<97, 108, 108>>   \* "all"
CMD_BIRTHDAYS == <<98, 105, 114, 116, 104, 100, 97, 121, 115>>   \* "birthdays"
CMD_ADD_BIRTHDAY == <<97, 100, 100, 45, 98, 105, 114, 116, 104, 100, 97, 121>>   \* "add-birthday"
CMD_SHOW_BIRTHDAY == <<115, 104, 111, 119, 45, 98, 105, 114, 116, 104, 100, 97, 121>>   \* "show-birthday"
CMD_HELLO == <<104, 101, 108, 108, 111>>   \* "hello"
CMD_CLOSE == <<99, 108, 111, 115, 101>>   \* "close"
CMD_EXIT == <<101, 120, 105, 116>>   \* "exit"
W_UPPER_ADD == <<65, 68, 68>>   \* "ADD"
W_OTHER == <<100, 101, 108, 101, 116, 101>>   \* "delete"
D_15_06_1990 == <<49, 53, 46, 48, 54, 46, 49, 57, 57, 48>>   \* "15.06.1990"
D_16_06_1992 == <<49, 54, 46, 48, 54, 46, 49, 57, 57, 50>>   \* "16.06.1992"
D_17_06_1991 == <<49, 55, 46, 48, 54, 46, 49, 57, 57, 49>>   \* "17.06.1991"
D_18_06_1985 == <<49, 56, 46, 48, 54, 46, 49, 57, 56, 53>>   \* "18.06.1985"
D_29_02_2024 == <<50, 57, 46, 48, 50, 46, 50, 48, 50, 52>>   \* "29.02.2024"
D_31_12_2000 == <<51, 49, 46, 49, 50, 46, 50, 48, 48, 48>>   \* "31.12.2000"
D_1_6_1990 == <<49, 46, 54, 46, 49, 57, 57, 48>>   \* "1.6.1990"
D_31_02_2000 == <<51, 49, 46, 48, 50, 46, 50, 48, 48, 48>>   \* "31.02.2000"
D_ISO == <<49, 57, 57, 48, 45, 48, 54, 45, 49, 53>>   \* "1990-06-15"

\* The words of a line joined by single spaces.
RECURSIVE Join(_)
Join(words) ==
    IF words = <<>> THEN <<>>
    ELSE IF Len(words) = 1 THEN words[1]
    ELSE words[1] \o <<32>> \o Join(Tail(words))

Date(y, m, d) == [y |-> y, m |-> m, d |-> d]

\* ret before any direct call, and after one: the method called, its arguments, the
\* exception it let through ("" when it returned) and the value it returned.
NoRet == [done |-> FALSE, call |-> "", args |-> <<>>, exc |-> NoExc, value |-> <<>>]

Returned(call, args, exc, value) ==
    [done |-> TRUE, call |-> call, args |-> args, exc |-> exc, value |-> value]

(***************************************************************************)
(* Spec: the command loop of main().                                       *)
(***************************************************************************)
CliNames == {ANN, BOB}
CliPhones == {P1, P_SUPERSCRIPT, P_LETTERS}
CliDates == {D_29_02_2024, D_31_02_2000}
CliTodays == {Date(2024, 2, 26), Date(2025, 2, 25)}

Lines ==
    {Join(<<c, n, p>>) : c \in {CMD_ADD, W_UPPER_ADD}, n \in CliNames, p \in CliPhones}
    \cup {Join(<<CMD_CHANGE, n, o, p>>) : n \in CliNames, o \in CliPhones, p \in CliPhones}
    \cup {Join(<<CMD_ADD_BIRTHDAY, n, d>>) : n \in CliNames, d \in CliDates}
    \cup {Join(<<c, n>>) : c \in {CMD_PHONE, CMD_SHOW_BIRTHDAY, CMD_ADD, CMD_CHANGE,
                                   CMD_ADD_BIRTHDAY},
                           n \in CliNames}
    \cup {c : c \in {CMD_PHONE, CMD_SHOW_BIRTHDAY, CMD_ALL, CMD_BIRTHDAYS, CMD_HELLO,
                     CMD_CLOSE, CMD_EXIT, W_OTHER}}
    \cup {<<>>, <<32, 32>>, <<32>> \o CMD_HELLO \o <<32, 9>>}

\* Every input line with what parse_input makes of it.
Parsed == {parse_input(l) : l \in Lines}

Init ==
    /\ book = <<>>
    /\ saved = <<>>
    /\ pc = "running"
    /\ out = <<"Welcome to the assistant bot!">>
    /\ ret = NoRet
    /\ today \in CliTodays
    /\ arg = <<>>

\* The rest of a loop turn once the handler is back: an exception ends main() with a
\* traceback, otherwise the store is saved when the command set save_changes.
Turn(r, save_changes) ==
    /\ book' = r.book
    /\ IF r.exc # NoExc
       THEN /\ pc' = "crashed"
            /\ out' = <<"Traceback">>
            /\ saved' = saved
       ELSE /\ pc' = "running"
            /\ out' = r.out
            /\ saved' = IF save_changes THEN r.book ELSE saved
    /\ UNCHANGED <<ret, today, arg>>

WithinBounds(data) == \A i \in 1..Len(data) : Len(data[i].phones) <= MaxPhones

\* input() returned a line without a word: parse_input raises in main().
EmptyLine ==
    /\ pc = "running"
    /\ \E p \in Parsed :
        /\ p.exc # NoExc
        /\ Turn([book |-> book, out |-> <<>>, exc |-> p.exc], FALSE)

CmdAdd ==
    /\ pc = "running"
    /\ \E p \in Parsed :
        /\ p.exc = NoExc
        /\ p.cmd = CMD_ADD
        /\ WithinBounds(add_contact(p.args, book).book)
        /\ Turn(add_contact(p.args, book), TRUE)

CmdChange ==
    /\ pc = "running"
    /\ \E p \in Parsed :
        /\ p.exc = NoExc
        /\ p.cmd = CMD_CHANGE
        /\ Turn(change_contact(p.args, book), TRUE)

CmdPhone ==
    /\ pc = "running"
    /\ \E p \in Parsed :
        /\ p.exc = NoExc
        /\ p.cmd = CMD_PHONE
        /\ Turn(show_phone(p.args, book), FALSE)

CmdAll ==
    /\ pc = "running"
    /\ \E p \in Parsed :
        /\ p.exc = NoExc
        /\ p.cmd = CMD_ALL
        /\ Turn(show_all(book), FALSE)

CmdBirthdays ==
    /\ pc = "running"
    /\ \E p \in Parsed :
        /\ p.exc = NoExc
        /\ p.cmd = CMD_BIRTHDAYS
        /\ Turn(show_upcoming_bitrhdays(book, today), FALSE)

CmdAddBirthday ==
    /\ pc = "running"
    /\ \E p \in Parsed :
        /\ p.exc = NoExc
        /\ p.cmd = CMD_ADD_BIRTHDAY
        /\ Turn(add_birthday_cmd(p.args, book), TRUE)

CmdShowBirthday ==
    /\ pc = "running"
    /\ \E p \in Parsed :
        /\ p.exc = NoExc
        /\ p.cmd = CMD_SHOW_BIRTHDAY
        /\ Turn(show_birthday(p.args, book), FALSE)

CmdHello ==
    /\ pc = "running"
    /\ \E p \in Parsed :
        /\ p.exc = NoExc
        /\ p.cmd = CMD_HELLO
        /\ Turn([book |-> book, out |-> <<"How can I help you?">>, exc |-> NoExc], FALSE)

CmdClose ==
    /\ pc = "running"
    /\ \E p \in Parsed :
        /\ p.exc = NoExc
        /\ p.cmd \in {CMD_CLOSE, CMD_EXIT}
        /\ book' = book
        /\ saved' = book
        /\ out' = <<"Good bye!">>
        /\ pc' = "exited"
        /\ UNCHANGED <<ret, today, arg>>

CmdInvalid ==
    /\ pc = "running"
    /\ \E p \in Parsed :
        /\ p.exc = NoExc
        /\ p.cmd \notin {CMD_ADD, CMD_CHANGE, CMD_PHONE, CMD_ALL, CMD_BIRTHDAYS,
                         CMD_ADD_BIRTHDAY, CMD_SHOW_BIRTHDAY, CMD_HELLO, CMD_CLOSE,
                         CMD_EXIT}
        /\ Turn([book |-> book, out |-> <<"Invalid command.">>, exc |-> NoExc], FALSE)

Next ==
    \/ EmptyLine
    \/ CmdAdd
    \/ CmdChange
    \/ CmdPhone
    \/ CmdAll
    \/ CmdBirthdays
    \/ CmdAddBirthday
    \/ CmdShowBirthday
    \/ CmdHello
    \/ CmdClose
    \/ CmdInvalid

Spec == Init /\ [][Next]_vars

(***************************************************************************)
(* SpecRecord: the methods of Record called on the records of a store.     *)
(***************************************************************************)
RecPhones == {P1, P2, P_SUPERSCRIPT, P_LETTERS, P_SHORT}
RecDates == {D_15_06_1990, D_29_02_2024, D_31_02_2000}

InitRecord ==
    /\ book = <<Record(ANN)>>
    /\ saved = <<>>
    /\ pc = "idle"
    /\ out = <<>>
    /\ ret = NoRet
    /\ today \in {Date(2024, 6, 10)}
    /\ arg = <<>>

\* What a wrapped method hands back: its own return value, None after an exception.
Call(method, i, args, r, value) ==
    /\ book' = [book EXCEPT ![i] = r.rec]
    /\ out' = r.out
    /\ ret' = Returned(method, <<i>> \o args, NoExc, IF r.out = <<>> THEN value ELSE None)
    /\ UNCHANGED <<saved, pc, today, arg>>

RecAddPhone ==
    \E i \in 1..Len(book), phone_number \in RecPhones :
        /\ Len(book[i].phones) < MaxPhones
        /\ Call("add_phone", i, <<phone_number>>, add_phone(book[i], phone_number), None)

RecRemovePhone ==
    \E i \in 1..Len(book), phone_number \in RecPhones :
        Call("remove_phone", i, <<phone_number>>, remove_phone(book[i], phone_number),
             IF book[i].phones = <<>> THEN None
             ELSE book[i].phones[Len(book[i].phones)])

RecEditPhone ==
    \E i \in 1..Len(book), old_phone_number \in RecPhones, new_phone_number \in RecPhones :
        Call("edit_phone", i, <<old_phone_number, new_phone_number>>,
             edit_phone(book[i], old_phone_number, new_phone_number), None)

RecFindPhone ==
    \E i \in 1..Len(book), phone_number \in RecPhones :
        LET index == get_phone_index(book[i].phones, phone_number)
        IN  Call("find_phone", i, <<phone_number>>,
                 [rec |-> book[i],
                  out |-> IF index = 0 THEN error_handler("ValueError") ELSE <<>>],
                 IF index = 0 THEN None ELSE book[i].phones[index])

RecAddBirthday ==
    \E i \in 1..Len(book), day \in RecDates :
        Call("add_birthday", i, <<day>>, add_birthday(book[i], day), None)

NextRecord ==
    \/ RecAddPhone
    \/ RecRemovePhone
    \/ RecEditPhone
    \/ RecFindPhone
    \/ RecAddBirthday

SpecRecord == InitRecord /\ [][NextRecord]_vars

(***************************************************************************)
(* SpecPhone: the Phone constructor applied to one string.                 *)
(***************************************************************************)
\* "1234567890" with one character replaced: a letter, a space, a hyphen, a dot, an
\* Arabic-Indic digit, a superscript digit, another ASCII digit.
PhoneInputs ==
    {[P1 EXCEPT ![i] = c] : i \in 1..10, c \in {97, 32, 45, 46, 1635, 178, 53}}
    \cup {P1, P2, P_SUPERSCRIPT, P_ARABIC, P_LETTERS, P_SHORT, P_LONG, <<>>,
          P1 \o <<32>>, <<43>> \o P_SHORT}

InitPhone ==
    /\ book = <<>>
    /\ saved = <<>>
    /\ pc = "idle"
    /\ out = <<>>
    /\ ret = NoRet
    /\ today \in {Date(2024, 6, 10)}
    /\ arg \in PhoneInputs

NewPhone ==
    /\ ~ret.done
    /\ ret' = Returned("Phone", <<arg>>, Phone(arg),
                       IF Phone(arg) = NoExc THEN arg ELSE None)
    /\ UNCHANGED <<book, saved, pc, out, today, arg>>

NextPhone == NewPhone

SpecPhone == InitPhone /\ [][NextPhone]_vars

(***************************************************************************)
(* SpecBirthdays: get_upcoming_birthdays applied to a store whose          *)
(* birthdays the Birthday validator accepted, on a given day.              *)
(***************************************************************************)
StoreNames == <<ANN, BOB, CYD, DAN>>

BirthdayInputs ==
    {D_15_06_1990, D_16_06_1992, D_17_06_1991, D_18_06_1985, D_29_02_2024, D_31_12_2000, D_1_6_1990,
     D_31_02_2000, D_ISO}

AcceptedBirthdays == {b \in BirthdayInputs : Birthday(b) = NoExc}

Todays ==
    {Date(2024, 6, 10), Date(2024, 6, 16), Date(2025, 6, 10), Date(2024, 2, 26),
     Date(2023, 12, 25), Date(2024, 5, 25)}

\* The stores of n records: the first n names in order, each with or without a birthday.
Stores(n) ==
    {[i \in 1..n |-> [name |-> StoreNames[i], phones |-> <<>>, birthday |-> f[i]]] :
        f \in [1..n -> AcceptedBirthdays \cup {None}]}

InitBirthdays ==
    /\ \E n \in 0..MaxRecords : book \in Stores(n)
    /\ saved = book
    /\ pc = "idle"
    /\ out = <<>>
    /\ ret = NoRet
    /\ today \in Todays
    /\ arg = <<>>

UpcomingBirthdays ==
    /\ ~ret.done
    /\ LET r == get_upcoming_birthdays(book, today)
       IN  ret' = Returned("get_upcoming_birthdays", <<>>, r.exc, r.list)
    /\ UNCHANGED <<book, saved, pc, out, today, arg>>

NextBirthdays == UpcomingBirthdays

SpecBirthdays == InitBirthdays /\ [][NextBirthdays]_vars

(***************************************************************************)
(* Properties.                                                             *)
(***************************************************************************)
InList(x, seq) == \E j \in 1..Len(seq) : seq[j] = x

NoDuplicates(seq) == \A j, k \in 1..Len(seq) : seq[j] = seq[k] => j = k

\* seq without the elements equal to x, the others in their order.
RECURSIVE Without(_, _)
Without(seq, x) ==
    IF seq = <<>> THEN <<>>
    ELSE IF Head(seq) = x THEN Without(Tail(seq), x)
    ELSE <<Head(seq)>> \o Without(Tail(seq), x)

IsTenAsciiDigits(p) == Len(p) = 10 /\ \A k \in 1..Len(p) : p[k] \in 48..57

\* The stored day and month in the year of current_date.
Occurrence(rec, current_date) ==
    Date(current_date.y, strptime(rec.birthday).m, strptime(rec.birthday).d)

\* The record has a birthday whose occurrence this year is 0 to 7 days ahead.
WithinWeek(rec, current_date) ==
    /\ rec.birthday # None
    /\ LET occ == Occurrence(rec, current_date)
       IN  /\ ValidDate(occ.y, occ.m, occ.d)
           /\ toordinal(occ) - toordinal(current_date) \in 0..7

EntriesFor(name) == {k \in 1..Len(ret.value) : ret.value[k].name = name}

\* C1: after get_upcoming_birthdays, a contact has an entry if and only if it has a
\* birthday whose this-year occurrence is 0 to 7 days after today, and then it has
\* exactly one entry.
C1_EntryIffWithinWeek ==
    ret.call = "get_upcoming_birthdays" =>
        \A i \in 1..Len(book) :
            Cardinality(EntriesFor(book[i].name))
                = IF WithinWeek(book[i], today) THEN 1 ELSE 0

\* C2: every entry's congratulation_date is the this-year occurrence when that is a
\* Monday to Friday, the occurrence plus 2 days when it is a Saturday and plus 1 day
\* when it is a Sunday, so it is never a Saturday or a Sunday; on 10.06.2024 the
\* birthday 15.06 is greeted on 17.06.2024.
C2_CongratulationDateOnWeekday ==
    ret.call = "get_upcoming_birthdays" =>
        \A k \in 1..Len(ret.value) :
            LET rec == book[IndexOf(book, ret.value[k].name)]
                occ == Occurrence(rec, today)
                shown == strptime(ret.value[k].congratulation_date)
            IN  /\ shown.ok
                /\ weekday(shown) < 5
                /\ toordinal(shown) - toordinal(occ)
                       = IF weekday(occ) = 5 THEN 2 ELSE IF weekday(occ) = 6 THEN 1 ELSE 0
                /\ (today = Date(2024, 6, 10) /\ rec.birthday = D_15_06_1990)
                       => ret.value[k].congratulation_date
                              = <<49, 55, 46, 48, 54, 46, 50, 48, 50, 52>>

\* A list was returned holding an entry moved from a Saturday and one moved from a Sunday.
C2_Witness ==
    /\ ret.call = "get_upcoming_birthdays"
    /\ ret.exc = NoExc
    /\ \E j, k \in 1..Len(ret.value) :
        /\ weekday(Occurrence(book[IndexOf(book, ret.value[j].name)], today)) = 5
        /\ weekday(Occurrence(book[IndexOf(book, ret.value[k].name)], today)) = 6

\* C3: add_phone of a number the record already holds leaves the phone list as it was
\* and reports no error.
C3_DuplicateAddIsNoOp ==
    [][(ret'.call = "add_phone" /\ InList(ret'.args[2], book[ret'.args[1]].phones))
           => /\ book'[ret'.args[1]].phones = book[ret'.args[1]].phones
              /\ out' = <<>>]_vars

\* C4: remove_phone of a number the record holds leaves the list without that number,
\* the other phones in their order; of a number it does not hold, it reports the
\* phone as not found and leaves the list as it was.  Stated for the records the data
\* model allows, which hold no number twice.
C4_RemoveRemovesThatNumber ==
    [][(ret'.call = "remove_phone" /\ NoDuplicates(book[ret'.args[1]].phones))
           => IF InList(ret'.args[2], book[ret'.args[1]].phones)
              THEN book'[ret'.args[1]].phones
                       = Without(book[ret'.args[1]].phones, ret'.args[2])
              ELSE /\ book'[ret'.args[1]].phones = book[ret'.args[1]].phones
                   /\ out' = <<"Phone number not found.">>]_vars

\* C5: edit_phone(old, new) on a record that does not hold old reports the phone as
\* not found and leaves the phone list as it was, whatever new is.
C5_EditAbsentLeavesPhones ==
    [][(ret'.call = "edit_phone" /\ ~InList(ret'.args[2], book[ret'.args[1]].phones))
           => /\ book'[ret'.args[1]].phones = book[ret'.args[1]].phones
              /\ out' = <<"Phone number not found.">>]_vars

\* edit_phone was called on a record with phones, with an old number it does not hold
\* and a new number the validator accepts.
C5_Witness ==
    /\ ret.call = "edit_phone"
    /\ book[ret.args[1]].phones # <<>>
    /\ ~InList(ret.args[2], book[ret.args[1]].phones)
    /\ Phone(ret.args[3]) = NoExc
    /\ ~InList(ret.args[3], book[ret.args[1]].phones)
    /\ out = <<"Phone number not found.">>

\* C6: the Phone constructor succeeds if and only if the string is 10 characters long
\* and each is one of the ASCII digits 0 to 9.
C6_PhoneIffTenAsciiDigits ==
    ret.call = "Phone" => (ret.exc = NoExc <=> IsTenAsciiDigits(arg))

\* C7: no input line other than close or exit ends the command loop: main() is never
\* ended by an exception.
C7_NoCommandIsFatal == pc # "crashed"

\* C8: every phone stored in every record is a string of exactly 10 decimal digits.
C8_StoredPhonesAreTenDigits ==
    \A i \in 1..Len(book) :
        \A j \in 1..Len(book[i].phones) : IsTenAsciiDigits(book[i].phones[j])

\* C9: no record holds the same number twice.
C9_NoDuplicatePhones ==
    \A i \in 1..Len(book) : NoDuplicates(book[i].phones)

\* C10: get_upcoming_birthdays returns a list, without raising, for every store of
\* accepted birthdays and every day.
C10_UpcomingNeverRaises ==
    ret.call = "get_upcoming_birthdays" => ret.exc = NoExc

====
